---- MODULE Spec2Model ----
(***************************************************************************)
(* Order creation and order lifecycle over the atomic per-product stock    *)
(* ledger of AgentOS (backend/app/modules/sales).                          *)
(*                                                                         *)
(*   ProductRepository.update_stock_atomic   sales/repository.py 188-235   *)
(*   OrderService.create_order               people/services.py  248-336   *)
(*   OrderService.update_order_status        people/services.py  338-473   *)
(*                                                                         *)
(* StockReservationService (reservation_service.py) is imported by the     *)
(* service file but is not part of the sources; it is modelled from        *)
(* section 4.2 of the specification.                                       *)
(***************************************************************************)
EXTENDS Integers, FiniteSets, Sequences, TLC

\* ------------------------------------------------------------------ bounds
Products == {"P1", "P2"}
Refs     == {"ORD1", "ORD2"}       \* order_ref of each create_order call
Updaters == {"U1", "U2"}           \* tasks handling update_order_status requests
InitStock == 1                     \* stock_quantity of every product at start
MaxQty    == 1                     \* largest quantity of one order item
MaxFaults == 1                     \* store failures injected in one behaviour of FaultSpec
MaxLedger == 2                     \* largest stock_quantity and reserved_stock in LedgerSpec
MaxDelta  == 2                     \* largest |quantity_change| in LedgerSpec
MaxTrx    == 2                     \* most record_transaction calls counted per order
MaxLines  == 3                     \* most item lines of one order in DispositionSpec
MaxLineQty == 3                    \* largest quantity of one item line in DispositionSpec

VARIABLES
    stock_quantity,   \* product document field, per product
    reserved_stock,   \* product document field, per product
    resv,             \* reservation service's record: resv[ref][p] = quantity held
    held,             \* history: net reserved_stock units ref's ledger calls added to p
    sold,             \* history: stock_quantity units ref's ledger calls took from p
    items,            \* items[ref][p] = ordered quantity (0: p is not in the order)
    orders,           \* order documents: orders[ref].status, "none" before it is stored;
                      \* trx_requests: the record_transaction calls made for the order;
                      \* call_failed: history, a ledger or persistence call of an
                      \* update_order_status request on the order failed
    creq,             \* the create_order call of each ref
    upd,              \* the update_order_status request each handler task is in
    budget,           \* store failures the behaviour may still inject
    call              \* the last direct call of update_stock_atomic (LedgerSpec)

vars == <<stock_quantity, reserved_stock, resv, held, sold, items, orders, creq, upd,
          budget, call>>

Zero == [p \in Products |-> 0]

\* ------------------------------------------------------------- the ledger
\* update_stock_atomic whose confirm branch forgets the reservation: it takes
\* the units from stock_quantity and leaves reserved_stock as it was.
UpdateStockAtomicPhysicalOnly(sq, rs, quantity_change, is_reservation) ==
    LET abs_change == IF quantity_change < 0 THEN -quantity_change ELSE quantity_change
        matches ==
            IF is_reservation
            THEN /\ (quantity_change > 0 => sq >= quantity_change)
                 /\ (quantity_change < 0 => rs >= abs_change)
            ELSE (quantity_change < 0 => (sq >= abs_change /\ rs >= abs_change))
    IN  IF ~matches THEN [success |-> FALSE, sq |-> sq, rs |-> rs]
        ELSE IF is_reservation
             THEN [success |-> TRUE, sq |-> sq, rs |-> rs + quantity_change]
             ELSE [success |-> TRUE, sq |-> sq + quantity_change, rs |-> rs]

\* update_stock_atomic that confirms with two updates, one per field: when
\* only the reservation is short it has already taken the units from
\* stock_quantity when it returns False.
UpdateStockAtomicTwoSteps(sq, rs, quantity_change, is_reservation) ==
    LET abs_change == IF quantity_change < 0 THEN -quantity_change ELSE quantity_change
        matches ==
            IF is_reservation
            THEN /\ (quantity_change > 0 => sq >= quantity_change)
                 /\ (quantity_change < 0 => rs >= abs_change)
            ELSE (quantity_change < 0 => (sq >= abs_change /\ rs >= abs_change))
    IN  IF ~matches
        THEN IF ~is_reservation /\ quantity_change < 0 /\ sq >= abs_change
             THEN [success |-> FALSE, sq |-> sq + quantity_change, rs |-> rs]
             ELSE [success |-> FALSE, sq |-> sq, rs |-> rs]
        ELSE IF is_reservation
             THEN [success |-> TRUE, sq |-> sq, rs |-> rs + quantity_change]
        ELSE IF quantity_change < 0
             THEN [success |-> TRUE, sq |-> sq + quantity_change, rs |-> rs + quantity_change]
             ELSE [success |-> TRUE, sq |-> sq + quantity_change, rs |-> rs]

\* update_stock_atomic on an existing product whose fields are sq and rs:
\* the filter of find_one_and_update and its $inc, as one atomic step.
UpdateStockAtomic(sq, rs, quantity_change, is_reservation) ==
    LET abs_change == IF quantity_change < 0 THEN -quantity_change ELSE quantity_change
        matches ==
            IF is_reservation
            THEN /\ (quantity_change > 0 => sq >= quantity_change)
                 /\ (quantity_change < 0 => rs >= abs_change)
            ELSE (quantity_change < 0 => (sq >= abs_change /\ rs >= abs_change))
    IN  IF ~matches THEN [success |-> FALSE, sq |-> sq, rs |-> rs]
        ELSE IF is_reservation
             THEN [success |-> TRUE, sq |-> sq, rs |-> rs + quantity_change]
        ELSE IF quantity_change < 0
             THEN [success |-> TRUE, sq |-> sq + quantity_change, rs |-> rs + quantity_change]
             ELSE [success |-> TRUE, sq |-> sq + quantity_change, rs |-> rs]

\* How one call of update_stock_atomic can end.  "none": the store answers.
\* "lost": the store call raises and the update was not applied.
\* "applied": the store call raises (a timeout) after the update was applied.
FaultKinds == {"none", "lost", "applied"}

\* What the caller sees when the store call raised: _handle_db_exception logs
\* and raises, the failure propagates as an error.
HandleDbException == "error"

\* update_stock_atomic that raises for an unmet guard instead of returning False.
LedgerCallRaiseOnGuard(p, quantity_change, is_reservation, f) ==
    LET r == UpdateStockAtomic(stock_quantity[p], reserved_stock[p],
                               quantity_change, is_reservation)
    IN  CASE f = "none"    -> [out |-> IF r.success THEN "true" ELSE "error",
                               sq |-> r.sq, rs |-> r.rs]
          [] f = "applied" -> [out |-> HandleDbException, sq |-> r.sq, rs |-> r.rs]
          [] OTHER         -> [out |-> HandleDbException, sq |-> stock_quantity[p],
                               rs |-> reserved_stock[p]]

\* The call on product p in the current state: what the caller sees
\* ("true", "false", "error") and the product fields afterwards.
LedgerCall(p, quantity_change, is_reservation, f) ==
    LET r == UpdateStockAtomic(stock_quantity[p], reserved_stock[p],
                               quantity_change, is_reservation)
    IN  CASE f = "none"    -> [out |-> IF r.success THEN "true" ELSE "false",
                               sq |-> r.sq, rs |-> r.rs]
          [] f = "applied" -> [out |-> HandleDbException, sq |-> r.sq, rs |-> r.rs]
          [] OTHER         -> [out |-> HandleDbException, sq |-> stock_quantity[p],
                               rs |-> reserved_stock[p]]

FaultOk(f) == f = "none" \/ budget > 0
BudgetAfter(f) == IF f = "none" THEN budget ELSE budget - 1

\* The ledger after call result r on product p, made on behalf of reservation ref.
ApplyLedger(ref, p, r) ==
    /\ stock_quantity' = [stock_quantity EXCEPT ![p] = r.sq]
    /\ reserved_stock' = [reserved_stock EXCEPT ![p] = r.rs]
    /\ held' = [held EXCEPT ![ref][p] = @ + (r.rs - reserved_stock[p])]
    /\ sold' = [sold EXCEPT ![ref][p] = @ + (stock_quantity[p] - r.sq)]

\* ------------------------------------------- the reservation service (4.2)
\* reserve_stock(reservation_id, product_id, quantity): the reserve pattern on
\* the ledger; the quantity is recorded under the reservation when it succeeds.
ReserveStock(ref, p, q, f) ==
    LET r == LedgerCall(p, q, TRUE, f)
    IN  /\ FaultOk(f)
        /\ budget' = BudgetAfter(f)
        /\ ApplyLedger(ref, p, r)
        /\ resv' = IF r.out = "true" THEN [resv EXCEPT ![ref][p] = q] ELSE resv

\* What reserve_stock gives its caller.
ReserveOut(p, q, f) == LedgerCall(p, q, TRUE, f).out

\* What _release_or_confirm_single gives its caller: "noop" when the
\* reservation holds nothing of the product (already released, already
\* confirmed or never reserved), else the ledger call's result.
SingleOut(ref, p, confirm, f) ==
    IF resv[ref][p] = 0 THEN "noop"
    ELSE LedgerCall(p, -resv[ref][p], ~confirm, f).out

\* _release_or_confirm_single that does not consult the reservation's record:
\* it releases or confirms the ordered quantity each time it is called.
ReleaseOrConfirmSingleFromItems(ref, p, confirm, f) ==
    LET r == LedgerCall(p, -items[ref][p], ~confirm, f)
    IN  /\ FaultOk(f)
        /\ budget' = BudgetAfter(f)
        /\ ApplyLedger(ref, p, r)
        /\ resv' = IF r.out = "true" THEN [resv EXCEPT ![ref][p] = 0] ELSE resv

\* _release_or_confirm_single that drops the record of an item only when it
\* released it: a confirmed item stays on record and a later release of the
\* reservation releases it again.
ReleaseOrConfirmSingleKeepConfirmed(ref, p, confirm, f) ==
    IF resv[ref][p] = 0
    THEN /\ f = "none"
         /\ UNCHANGED <<stock_quantity, reserved_stock, held, sold, resv, budget, call>>
    ELSE LET r == LedgerCall(p, -resv[ref][p], ~confirm, f)
         IN  /\ FaultOk(f)
             /\ budget' = BudgetAfter(f)
             /\ ApplyLedger(ref, p, r)
             /\ resv' = IF r.out = "true" /\ ~confirm THEN [resv EXCEPT ![ref][p] = 0]
                        ELSE resv

\* _release_or_confirm_single(reservation_id, product_id, confirm): the release
\* pattern (confirm = FALSE) or the confirm pattern (confirm = TRUE) for the
\* quantity the reservation holds of the product; the record is dropped when
\* the ledger applied it.
ReleaseOrConfirmSingle(ref, p, confirm, f) ==
    IF resv[ref][p] = 0
    THEN /\ f = "none"
         /\ UNCHANGED <<stock_quantity, reserved_stock, held, sold, resv, budget, call>>
    ELSE LET r == LedgerCall(p, -resv[ref][p], ~confirm, f)
         IN  /\ FaultOk(f)
             /\ budget' = BudgetAfter(f)
             /\ ApplyLedger(ref, p, r)
             /\ resv' = IF r.out = "true" THEN [resv EXCEPT ![ref][p] = 0] ELSE resv

\* ------------------------------------------------------------ create_order
ItemChoices == {its \in [Products -> 0..MaxQty] : \E p \in Products : its[p] > 0}

\* ProductInDB.available_stock, as _process_order_items reads it.
AvailableStock(p) == stock_quantity[p] - reserved_stock[p]

\* The references come from one counter: "ORD1" is handed out before "ORD2".
RefBefore(b, c) == b = "ORD1" /\ c = "ORD2"

IdleCreate == [pc |-> "idle", res |-> [p \in Products |-> "-"], out |-> "-",
               clean |-> TRUE, compfail |-> FALSE]

CreateDone(c, out) == [creq[c] EXCEPT !.pc = "done", !.out = out]

\* create_order that asks for the reference after the reserve calls: a failed
\* reference leaves the call with its items reserved.
CreateStartReserveFirst(c) ==
    /\ creq[c].pc = "idle"
    /\ \A b \in Refs : RefBefore(b, c) => creq[b].pc # "idle"
    /\ \E its \in ItemChoices, ref_ok \in BOOLEAN :
         IF \E p \in Products : AvailableStock(p) < its[p]
         THEN /\ creq' = [creq EXCEPT ![c] = CreateDone(c, "http400")]
              /\ ref_ok
              /\ UNCHANGED <<items, reserved_stock, held>>
         ELSE IF ~ref_ok
         THEN /\ creq' = [creq EXCEPT ![c] = CreateDone(c, "http500_ref")]
              /\ reserved_stock' = [p \in Products |-> reserved_stock[p] + its[p]]
              /\ held' = [held EXCEPT ![c] = its]
              /\ UNCHANGED items
         ELSE /\ creq' = [creq EXCEPT ![c].pc = "reserve"]
              /\ items' = [items EXCEPT ![c] = its]
              /\ UNCHANGED <<reserved_stock, held>>
    /\ UNCHANGED <<stock_quantity, resv, sold, orders, upd, budget, call>>

\* create_order up to the reservation: _process_order_items (one read of the
\* products, the availability pre-check) and counter_service.generate_reference.
CreateStart(c) ==
    /\ creq[c].pc = "idle"
    /\ \A b \in Refs : RefBefore(b, c) => creq[b].pc # "idle"
    /\ \E its \in ItemChoices, ref_ok \in BOOLEAN :
         IF \E p \in Products : AvailableStock(p) < its[p]
         THEN /\ creq' = [creq EXCEPT ![c] = CreateDone(c, "http400")]
              /\ ref_ok
              /\ UNCHANGED items
         ELSE IF ~ref_ok
         THEN /\ creq' = [creq EXCEPT ![c] = CreateDone(c, "http500_ref")]
              /\ UNCHANGED items
         ELSE /\ creq' = [creq EXCEPT ![c].pc = "reserve"]
              /\ items' = [items EXCEPT ![c] = its]
    /\ UNCHANGED <<stock_quantity, reserved_stock, resv, held, sold, orders, upd, budget, call>>

\* create_order that takes every result of the gather for a success and goes
\* on to store the order.
AfterReserveIgnoreFailed(c, res) ==
    IF \E p \in Products : res[p] = "-" /\ items[c][p] > 0
    THEN [creq[c] EXCEPT !.res = res]
    ELSE [creq[c] EXCEPT !.res = res, !.pc = "persist"]

\* create_order that tries the reserve of a failed item again until it
\* succeeds.
AfterReserveRetry(c, res) ==
    LET again == [p \in Products |-> IF res[p] = "fail" THEN "-" ELSE res[p]]
    IN  IF \E p \in Products : again[p] = "-" /\ items[c][p] > 0
        THEN [creq[c] EXCEPT !.res = again]
        ELSE [creq[c] EXCEPT !.res = again, !.pc = "persist"]

\* create_order that raises the conflict as soon as the gather is back, without
\* releasing the items it did reserve.
AfterReserveNoRollback(c, res) ==
    IF \E p \in Products : res[p] = "-" /\ items[c][p] > 0
    THEN [creq[c] EXCEPT !.res = res]
    ELSE IF \E p \in Products : res[p] = "fail"
    THEN [creq[c] EXCEPT !.res = res, !.pc = "done", !.out = "http409"]
    ELSE [creq[c] EXCEPT !.res = res, !.pc = "persist"]

\* Where create_order goes when every reserve task of the gather has a result.
AfterReserve(c, res) ==
    IF \E p \in Products : res[p] = "-" /\ items[c][p] > 0
    THEN [creq[c] EXCEPT !.res = res]
    ELSE IF \E p \in Products : res[p] = "fail"
    THEN IF \E p \in Products : res[p] = "ok"
         THEN [creq[c] EXCEPT !.res = res, !.pc = "rollback"]
         ELSE [creq[c] EXCEPT !.res = res, !.pc = "done", !.out = "http409"]
    ELSE [creq[c] EXCEPT !.res = res, !.pc = "persist"]

\* One reserve task of asyncio.gather(*reserve_tasks, return_exceptions=True).
CreateReserve(c, p) ==
    /\ creq[c].pc = "reserve"
    /\ items[c][p] > 0
    /\ creq[c].res[p] = "-"
    /\ \E f \in FaultKinds :
         /\ ReserveStock(c, p, items[c][p], f)
         /\ LET got == IF ReserveOut(p, items[c][p], f) = "true" THEN "ok" ELSE "fail"
                nxt == AfterReserve(c, [creq[c].res EXCEPT ![p] = got])
            IN  creq' = [creq EXCEPT ![c] =
                            [nxt EXCEPT !.clean = creq[c].clean /\ f = "none"]]
    /\ UNCHANGED <<items, orders, upd, call>>

\* The record of a call after one compensating release of product p.
AfterRelease(c, p, o, f, last_out) ==
    LET res  == [creq[c].res EXCEPT ![p] = "undone"]
        bad  == creq[c].compfail \/ o \notin {"true", "noop"}
        more == \E x \in Products : res[x] = "ok"
    IN  [creq[c] EXCEPT !.res = res,
                        !.compfail = bad,
                        !.clean = creq[c].clean /\ f = "none",
                        !.pc = IF more THEN @ ELSE "done",
                        !.out = IF more THEN @ ELSE last_out]

\* The products the detail of the HTTP 409 names when the reserves of the
\* products in failed_reservations failed: the detail is a fixed text.
ConflictDetail(failed_reservations) == {}

\* One release task of the rollback gather (return_exceptions=True: what the
\* tasks return is dropped), then HTTP 409 once all of them are back.
CreateRollback(c, p) ==
    /\ creq[c].pc = "rollback"
    /\ creq[c].res[p] = "ok"
    /\ \E f \in FaultKinds :
         /\ ReleaseOrConfirmSingle(c, p, FALSE, f)
         /\ creq' = [creq EXCEPT ![c] =
                        AfterRelease(c, p, SingleOut(c, p, FALSE, f), f, "http409")]
    /\ UNCHANGED <<items, orders, upd, call>>

\* How order_repo.create can fail: the two exception classes create_order
\* handles, and any exception outside them (it leaves create_order as it is).
PersistFailures == {"ValueError", "RuntimeError", "OtherError"}

\* How create_order continues after order_repo.create ended with `outcome`.
AfterPersist(c, outcome) ==
    IF outcome = "ok" THEN CreateDone(c, "created")
    ELSE IF outcome \in {"ValueError", "RuntimeError"}
         THEN [creq[c] EXCEPT !.pc = "release"]
         ELSE CreateDone(c, "error")

\* order_repo.create(order_data_dict), status "pending".
CreatePersist(c) ==
    /\ creq[c].pc = "persist"
    /\ \E outcome \in {"ok"} \cup PersistFailures :
         /\ creq' = [creq EXCEPT ![c] = AfterPersist(c, outcome)]
         /\ orders' = IF outcome = "ok"
                      THEN [orders EXCEPT ![c].status = "pending"]
                      ELSE orders
    /\ UNCHANGED <<stock_quantity, reserved_stock, resv, held, sold, items, upd, budget, call>>

\* release_reservation(reservation_id) after the failed persist, one item at a
\* time; it raises when an item could not be released, otherwise HTTP 500.
CreateRelease(c, p) ==
    /\ creq[c].pc = "release"
    /\ creq[c].res[p] = "ok"
    /\ \E f \in FaultKinds :
         /\ ReleaseOrConfirmSingle(c, p, FALSE, f)
         /\ LET o   == SingleOut(c, p, FALSE, f)
                bad == creq[c].compfail \/ o \notin {"true", "noop"}
            IN  creq' = [creq EXCEPT ![c] =
                    AfterRelease(c, p, o, f,
                        IF bad THEN "reservation_error" ELSE "http500_save")]
    /\ UNCHANGED <<items, orders, upd, call>>

\* ----------------------------------------------------- update_order_status
Statuses == {"pending", "confirmed", "processing", "awaiting_shipment", "shipped",
             "delivered", "cancelled", "failed", "returned"}

\* What a request may ask for: a status, or "paid", which the side-effect
\* conditions name and no row of the table allows.
Requested == Statuses \cup {"paid"}

\* valid_transitions with a row that lets a delivered order be cancelled.
ValidTransitionsLoose(current_status) ==
    CASE current_status = "pending" -> {"confirmed", "processing", "cancelled", "failed"}
      [] current_status = "confirmed" ->
             {"processing", "awaiting_shipment", "cancelled", "failed"}
      [] current_status = "processing" ->
             {"awaiting_shipment", "shipped", "cancelled", "failed"}
      [] current_status = "awaiting_shipment" -> {"shipped", "cancelled", "failed"}
      [] current_status = "shipped" -> {"delivered", "returned", "failed"}
      [] current_status = "delivered" -> {"returned", "cancelled"}
      [] OTHER -> {}

\* valid_transitions
ValidTransitions(current_status) ==
    CASE current_status = "pending" -> {"confirmed", "processing", "cancelled", "failed"}
      [] current_status = "confirmed" ->
             {"processing", "awaiting_shipment", "cancelled", "failed"}
      [] current_status = "processing" ->
             {"awaiting_shipment", "shipped", "cancelled", "failed"}
      [] current_status = "awaiting_shipment" -> {"shipped", "cancelled", "failed"}
      [] current_status = "shipped" -> {"delivered", "returned", "failed"}
      [] current_status = "delivered" -> {"returned"}
      [] OTHER -> {}

\* Step 1 with "returned" left out of the statuses that release.
ReservationActionNoReturned(current_status, new_status) ==
    IF new_status \in {"cancelled", "failed"} /\ current_status # new_status
    THEN "release"
    ELSE IF new_status \in {"confirmed", "paid", "processing"} /\ current_status = "pending"
    THEN "confirm"
    ELSE "none"

\* Step 1 of the side effects: which reservation call the transition makes.
ReservationAction(current_status, new_status) ==
    IF new_status \in {"cancelled", "failed", "returned"} /\ current_status # new_status
    THEN "release"
    ELSE IF new_status \in {"confirmed", "paid", "processing"} /\ current_status = "pending"
    THEN "confirm"
    ELSE "none"

\* Step 2 with "confirmed" among the statuses that request the record.
RecordsTransactionOnConfirmed(current_status, new_status) ==
    /\ new_status \in {"confirmed", "processing", "awaiting_shipment", "paid"}
    /\ current_status \in {"pending", "confirmed"}

\* Step 2: whether banking_service.record_transaction is requested.
RecordsTransaction(current_status, new_status) ==
    /\ new_status \in {"processing", "awaiting_shipment", "paid"}
    /\ current_status \in {"pending", "confirmed"}

\* Step 3: whether stock_service.mark_items_as_sold is requested.
MarksItemsSold(current_status, new_status) == new_status = "delivered"

IdleUpdate == [pc |-> "idle", ref |-> "-", cur |-> "-", new |-> "-", act |-> "none",
               lp |-> {}, app |-> {}, lerr |-> FALSE, trx |-> 0, disp |-> 0, wrote |-> FALSE,
               result |-> "-"]

\* The request's record when the same-status return is missing: every request
\* goes through the validation.
AfterReadNoShortcut(o, current_status, new_status) ==
    LET base == [IdleUpdate EXCEPT !.ref = o, !.cur = current_status, !.new = new_status]
    IN  IF new_status \notin ValidTransitions(current_status)
        THEN [base EXCEPT !.pc = "done", !.result = "http400"]
        ELSE LET a == ReservationAction(current_status, new_status)
             IN  [base EXCEPT !.act = a,
                              !.pc = IF a = "none" THEN "finish" ELSE "ledger"]

\* The request's record after get_by_id returned an order in current_status:
\* the same-status return, the validation, else on to the side effects.
AfterRead(o, current_status, new_status) ==
    LET base == [IdleUpdate EXCEPT !.ref = o, !.cur = current_status, !.new = new_status]
    IN  IF new_status = current_status
        THEN [base EXCEPT !.pc = "done", !.result = "unchanged"]
        ELSE IF new_status \notin ValidTransitions(current_status)
        THEN [base EXCEPT !.pc = "done", !.result = "http400"]
        ELSE LET a == ReservationAction(current_status, new_status)
             IN  [base EXCEPT !.act = a,
                              !.pc = IF a = "none" THEN "finish" ELSE "ledger"]

\* A request is taken by the first free task: "U2" handles one only while "U1"
\* is busy.
TaskBefore(t, u) == t = "U1" /\ u = "U2"

\* order_repo.get_by_id and what follows it up to the first side effect.
UpdateRead(u, asked) ==
    /\ upd[u].pc = "idle"
    /\ \A t \in Updaters : TaskBefore(t, u) => upd[t].pc # "idle"
    /\ \E o \in Refs, new_status \in asked :
         upd' = [upd EXCEPT ![u] =
                    IF orders[o].status = "none"
                    THEN [IdleUpdate EXCEPT !.pc = "done", !.ref = o,
                                            !.new = new_status, !.result = "not_found"]
                    ELSE AfterRead(o, orders[o].status, new_status)]
    /\ UNCHANGED <<stock_quantity, reserved_stock, resv, held, sold, items, orders, creq, budget, call>>

\* The products of order o: the reservation's item manifest.
OrderProducts(o) == {p \in Products : items[o][p] > 0}

\* release_reservation / confirm_reservation, one item at a time.  An item the
\* ledger refuses makes the call raise ReservationError once every item was
\* tried; a store error is either wrapped the same way or escapes at once.
UpdateLedger(u, p) ==
    LET o == upd[u].ref
        confirm == upd[u].act = "confirm"
    IN  /\ upd[u].pc = "ledger"
        /\ p \in OrderProducts(o) \ upd[u].lp
        /\ \E f \in FaultKinds, wrapped \in BOOLEAN :
             /\ ReleaseOrConfirmSingle(o, p, confirm, f)
             /\ (f = "none" => wrapped)
             /\ LET out  == SingleOut(o, p, confirm, f)
                    lp   == upd[u].lp \cup {p}
                    app  == IF LedgerCall(p, -resv[o][p], ~confirm, f).sq
                                  # stock_quantity[p]
                               \/ LedgerCall(p, -resv[o][p], ~confirm, f).rs
                                  # reserved_stock[p]
                            THEN upd[u].app \cup {p} ELSE upd[u].app
                    lerr == upd[u].lerr \/ out \in {"false", "error"}
                IN  upd' = [upd EXCEPT ![u] =
                        IF out = "error" /\ ~wrapped
                        THEN [@ EXCEPT !.lp = lp, !.app = app, !.lerr = TRUE, !.pc = "done",
                                       !.result = "error"]
                        ELSE [@ EXCEPT !.lp = lp, !.app = app, !.lerr = lerr,
                                       !.pc = IF lp = OrderProducts(o)
                                              THEN "finish" ELSE "ledger"]]
                    /\ orders' = [orders EXCEPT ![o].call_failed =
                                      @ \/ out \in {"false", "error"}]
        /\ UNCHANGED <<items, creq, call>>

\* How update_order_status ends after order_repo.update ended with `outcome`
\* ("missing": it returned None, the order is gone).
WriteResult(outcome) ==
    CASE outcome = "ok" -> "updated"
      [] outcome = "missing" -> "http500"
      [] outcome \in {"ValueError", "RuntimeError"} -> "http500"
      [] OTHER -> "error"

\* The rest of an accepted request: the transaction record request, the
\* mark-items-sold request (their failures are logged and dropped) and
\* order_repo.update(order_id, {"status": new_status, ...}).
UpdateFinish(u) ==
    LET o == upd[u].ref
        r == upd[u]
    IN  /\ r.pc = "finish"
        /\ \E outcome \in {"ok", "missing"} \cup PersistFailures :
             /\ upd' = [upd EXCEPT ![u] =
                    [r EXCEPT !.trx = IF RecordsTransaction(r.cur, r.new) THEN 1 ELSE 0,
                              !.disp = IF MarksItemsSold(r.cur, r.new) THEN 1 ELSE 0,
                              !.wrote = outcome = "ok",
                              !.pc = "done",
                              !.result = WriteResult(outcome)]]
             /\ orders' = [orders EXCEPT
                    ![o].status = IF outcome = "ok" THEN r.new ELSE @,
                    ![o].trx_requests = IF RecordsTransaction(r.cur, r.new) /\ @ < MaxTrx
                                        THEN @ + 1 ELSE @,
                    ![o].call_failed = @ \/ outcome # "ok"]
        /\ UNCHANGED <<stock_quantity, reserved_stock, resv, held, sold, items, creq, budget, call>>

\* update_order_status returns (the order, None or the HTTP error) and the task
\* is free for the next request.
UpdateReturn(u) ==
    /\ upd[u].pc = "done"
    /\ upd' = [upd EXCEPT ![u] = IdleUpdate]
    /\ UNCHANGED <<stock_quantity, reserved_stock, resv, held, sold, items, orders, creq, budget, call>>

\* A request that has ended returns before anything else happens: the return
\* touches nothing shared, so no interleaving of the other steps is lost.
Returning == \E u \in Updaters : upd[u].pc = "done"

\* ----------------------------------------------------------- specification
\* The statuses asked for while orders are created and contend for stock: the
\* ones whose transitions from a new order call the ledger.
ContendedRequests == {"confirmed", "cancelled"}

NoCall == [p |-> "-", q |-> 0, res |-> FALSE, f |-> "none", sq |-> 0, rs |-> 0,
           out |-> "-"]

\* No order yet, no request in progress.
Fresh ==
    /\ resv = [c \in Refs |-> Zero]
    /\ held = [c \in Refs |-> Zero]
    /\ sold = [c \in Refs |-> Zero]
    /\ items = [c \in Refs |-> Zero]
    /\ orders = [c \in Refs |-> [status |-> "none", trx_requests |-> 0,
                                 call_failed |-> FALSE]]
    /\ creq = [c \in Refs |-> IdleCreate]
    /\ upd = [u \in Updaters |-> IdleUpdate]
    /\ call = NoCall

Init ==
    /\ stock_quantity = [p \in Products |-> InitStock]
    /\ reserved_stock = Zero
    /\ Fresh
    /\ budget = 0

\* The steps of the create_order calls rs and of the update_order_status
\* requests, for the statuses in asked, that the tasks us handle.
StepOf(rs, us, asked) ==
    \/ \E c \in rs : CreateStart(c)
    \/ \E c \in rs, p \in Products : CreateReserve(c, p)
    \/ \E c \in rs, p \in Products : CreateRollback(c, p)
    \/ \E c \in rs : CreatePersist(c)
    \/ \E c \in rs, p \in Products : CreateRelease(c, p)
    \/ \E u \in us : UpdateRead(u, asked)
    \/ \E u \in us, p \in Products : UpdateLedger(u, p)
    \/ \E u \in us : UpdateFinish(u)

\* Two orders created and updated by concurrent requests; the store answers
\* every ledger call.
Next ==
    \/ \E u \in Updaters : UpdateReturn(u)
    \/ ~Returning /\ StepOf(Refs, Updaters, ContendedRequests)

Spec == Init /\ [][Next]_vars

\* The same with store failures in the ledger calls, one request at a time.
FaultInit ==
    /\ stock_quantity = [p \in Products |-> InitStock]
    /\ reserved_stock = Zero
    /\ Fresh
    /\ budget = MaxFaults

FaultNext ==
    \/ UpdateReturn("U1")
    \/ ~Returning /\ StepOf(Refs, {"U1"}, ContendedRequests)

FaultSpec == FaultInit /\ [][FaultNext]_vars

\* Scheduling: every call awaited by a create_order returns (a value or an
\* error) and the event loop resumes every task that can go on, so a
\* create_order that has a step to take takes it; a request that has ended
\* returns.  Requests arrive or not as they please.
CreateStep(c) ==
    \/ \E p \in Products : CreateReserve(c, p)
    \/ \E p \in Products : CreateRollback(c, p)
    \/ CreatePersist(c)
    \/ \E p \in Products : CreateRelease(c, p)

LiveNext ==
    \/ UpdateReturn("U1")
    \/ StepOf(Refs, {"U1"}, ContendedRequests)

LiveSpec ==
    /\ FaultInit
    /\ [][LiveNext]_vars
    /\ WF_vars(UpdateReturn("U1"))
    /\ \A c \in Refs : WF_vars(CreateStep(c))

\* FaultSpec on products with more units on hand than one order takes, so that
\* two orders hold units of the same product side by side.
RetryInit ==
    /\ stock_quantity = [p \in Products |-> MaxLedger]
    /\ reserved_stock = Zero
    /\ Fresh
    /\ budget = MaxFaults

RetrySpec == RetryInit /\ [][FaultNext]_vars

\* One order through its whole life: every status may be asked for, one
\* request at a time, with store failures in the ledger calls.
LifeNext ==
    \/ UpdateReturn("U1")
    \/ ~Returning /\ StepOf({"ORD1"}, {"U1"}, Requested)

LifeSpec == FaultInit /\ [][LifeNext]_vars

\* The ledger alone: update_stock_atomic called directly, with every kind of
\* arguments, on products in every state of their two fields.
ProductIds == Products \cup {"PX"}      \* "PX": no product has this _id

LedgerInit ==
    /\ stock_quantity \in [Products -> 0..MaxLedger]
    /\ reserved_stock \in [Products -> 0..MaxLedger]
    /\ \A p \in Products : reserved_stock[p] <= stock_quantity[p]
    /\ Fresh
    /\ budget = 0

\* One call update_stock_atomic(id, q, is_reservation); call records its
\* arguments, the fields it found and what it gave back.
LedgerOp(id, q, is_reservation, f) ==
    /\ IF id \in Products
       THEN LET r == LedgerCall(id, q, is_reservation, f)
            IN  /\ r.sq <= MaxLedger /\ r.rs <= MaxLedger
                /\ stock_quantity' = [stock_quantity EXCEPT ![id] = r.sq]
                /\ reserved_stock' = [reserved_stock EXCEPT ![id] = r.rs]
                /\ call' = [p |-> id, q |-> q, res |-> is_reservation, f |-> f,
                            sq |-> stock_quantity[id], rs |-> reserved_stock[id],
                            out |-> r.out]
       ELSE /\ UNCHANGED <<stock_quantity, reserved_stock>>
            /\ call' = [p |-> id, q |-> q, res |-> is_reservation, f |-> f,
                        sq |-> 0, rs |-> 0,
                        out |-> IF f = "none" THEN "false" ELSE HandleDbException]
    /\ UNCHANGED <<resv, held, sold, items, orders, creq, upd, budget>>

LedgerNext ==
    \E id \in ProductIds, q \in (-MaxDelta)..MaxDelta, is_reservation \in BOOLEAN,
       f \in FaultKinds : LedgerOp(id, q, is_reservation, f)

LedgerSpec == LedgerInit /\ [][LedgerNext]_vars

\* The product catalogue next to the ledger: ProductRepository.update called
\* with dict payloads, between direct calls of update_stock_atomic.
UpdateKeys == {"name", "stock_quantity", "reserved_stock"}

\* data_in: a dict with some of the keys, each with a value.
UpdatePayloads == UNION {[K -> 0..MaxLedger] : K \in SUBSET UpdateKeys}

\* "Campos protegidos": the keys update never copies into its $set.
ProtectedFields == {"_id", "id", "created_at", "price_history", "reserved_stock"}

\* The $set of ProductRepository.update for data_in.
SetPayload(data_in) == [k \in (DOMAIN data_in) \ ProtectedFields |-> data_in[k]]

\* ProductRepository.update(id, data_in); call records the fields it found.
ProductUpdate(id, data_in) ==
    LET update_payload == SetPayload(data_in)
        Field(k, old) == IF k \in DOMAIN update_payload THEN update_payload[k] ELSE old
    IN  /\ IF id \in Products
           THEN /\ stock_quantity' =
                      [stock_quantity EXCEPT ![id] = Field("stock_quantity", @)]
                /\ reserved_stock' =
                      [reserved_stock EXCEPT ![id] = Field("reserved_stock", @)]
                /\ call' = [p |-> id, q |-> 0, res |-> FALSE, f |-> "update",
                            sq |-> stock_quantity[id], rs |-> reserved_stock[id],
                            out |-> "updated"]
           ELSE /\ UNCHANGED <<stock_quantity, reserved_stock>>
                /\ call' = [p |-> id, q |-> 0, res |-> FALSE, f |-> "update",
                            sq |-> 0, rs |-> 0, out |-> "none"]
        /\ UNCHANGED <<resv, held, sold, items, orders, creq, upd, budget>>

CatalogNext ==
    \/ LedgerNext
    \/ \E id \in ProductIds, data_in \in UpdatePayloads : ProductUpdate(id, data_in)

CatalogSpec == LedgerInit /\ [][CatalogNext]_vars

\* Step 3 alone: the mark-items-sold request of a transition into delivered,
\* for orders with every list of item lines.  create_order stores one line for
\* each item of the request as it comes (_process_order_items merges nothing),
\* so two lines of an order may name the same product.
OrderLines ==
    UNION {[1..n -> [product_id : Products, quantity : 1..MaxLineQty]] : n \in 1..MaxLines}

\* prod_quantities = {item.product_id: item.quantity for item in order.items}:
\* a later line of a product replaces an earlier one.
ProdQuantities(order_items) ==
    [p \in {order_items[i].product_id : i \in DOMAIN order_items} |->
        LET last == CHOOSE i \in DOMAIN order_items :
                        /\ order_items[i].product_id = p
                        /\ \A j \in DOMAIN order_items :
                               order_items[j].product_id = p => j <= i
        IN  order_items[last].quantity]

\* The transition of a shipped order with these item lines into delivered,
\* as far as step 3: call records the lines and the request issued.
DeliverOrder(order_items) ==
    /\ MarksItemsSold("shipped", "delivered")
    /\ call' = [p |-> "-", q |-> 0, res |-> FALSE, f |-> "sold", sq |-> 0, rs |-> 0,
                out |-> "-", items |-> order_items,
                product_ids_quantities |-> ProdQuantities(order_items)]
    /\ UNCHANGED <<stock_quantity, reserved_stock, resv, held, sold, items, orders, creq,
                   upd, budget>>

DispositionNext == \E order_items \in OrderLines : DeliverOrder(order_items)

DispositionSpec == Init /\ [][DispositionNext]_vars

\* The order document under the writes of update_order_status: the final
\* order_repo.update and the one that stores the transaction id, for stored
\* orders with every content and every accepted transition.
OrderDocs ==
    [customer_id : {"cust1", "cust2"}, items : {<<"P1">>, <<"P1", "P2">>},
     total_amount : {"10.00", "25.50"}, channel : {"web", "store"},
     status : Statuses, actual_delivery_date : {"-", "earlier"},
     notes : {"-"}, transaction_ids : {{}}]

\* notes of the request: None ("-") or a text.
RequestNotes == {"-", "note"}

\* update_payload that also zeroes total_amount when the order is returned.
StatusPayloadRefund(order, new_status, notes) ==
    LET keys == {"status"}
                \cup (IF new_status = "delivered" /\ order.actual_delivery_date = "-"
                      THEN {"actual_delivery_date"} ELSE {})
                \cup (IF notes # "-" THEN {"notes"} ELSE {})
                \cup (IF new_status = "returned" THEN {"total_amount"} ELSE {})
    IN  [k \in keys |-> CASE k = "status" -> new_status
                           [] k = "actual_delivery_date" -> "now"
                           [] k = "total_amount" -> "0.00"
                           [] OTHER -> notes]

\* update_payload of the final write.
StatusPayload(order, new_status, notes) ==
    LET keys == {"status"}
                \cup (IF new_status = "delivered" /\ order.actual_delivery_date = "-"
                      THEN {"actual_delivery_date"} ELSE {})
                \cup (IF notes # "-" THEN {"notes"} ELSE {})
    IN  [k \in keys |-> CASE k = "status" -> new_status
                           [] k = "actual_delivery_date" -> "now"
                           [] OTHER -> notes]

\* The document after the $set of a payload.
SetFields(order, payload) ==
    [k \in DOMAIN order |-> IF k \in DOMAIN payload THEN payload[k] ELSE order[k]]

\* The writes of one accepted request on a stored order: the transaction id
\* when step 2 recorded one and its update went through (trx_stored), then
\* the final write; call records the document before and after.
WriteOrder(order, new_status, notes, trx_stored) ==
    LET with_trx == IF RecordsTransaction(order.status, new_status) /\ trx_stored
                    THEN [order EXCEPT !.transaction_ids = @ \cup {"trx1"}]
                    ELSE order
    IN  /\ new_status \in ValidTransitions(order.status)
        /\ call' = [p |-> "-", q |-> 0, res |-> FALSE, f |-> "write", sq |-> 0, rs |-> 0,
                    out |-> "-", before |-> order,
                    after |-> SetFields(with_trx, StatusPayload(order, new_status, notes))]
        /\ UNCHANGED <<stock_quantity, reserved_stock, resv, held, sold, items, orders, creq,
                       upd, budget>>

OrderDocNext ==
    \E order \in OrderDocs, new_status \in Requested, notes \in RequestNotes,
       trx_stored \in BOOLEAN : WriteOrder(order, new_status, notes, trx_stored)

OrderDocSpec == Init /\ [][OrderDocNext]_vars

\* ------------------------------------------------------------------ claims
RECURSIVE SumHeld(_, _)
SumHeld(S, p) ==
    IF S = {} THEN 0
    ELSE LET c == CHOOSE x \in S : TRUE IN held[c][p] + SumHeld(S \ {c}, p)

\* Units of p that successful reserve attempts put on hold and that were
\* neither released nor confirmed since.
TotalHeld(p) == SumHeld(Refs, p)

CreateReturned(c, outs) == creq[c].pc = "done" /\ creq[c].out \in outs

UpdateReturned(u, results) == upd[u].pc = "done" /\ upd[u].result \in results

\* C1 - No overselling: of the units on hand of a product, the reserve attempts
\* of the create_order calls that succeed never hold more than there are
\* (stock 1 and two concurrent reserves of 1: one succeeds, one fails).
C1_NoOverselling == \A p \in Products : TotalHeld(p) <= stock_quantity[p]

\* C2 - In every reachable state 0 <= reserved_stock <= stock_quantity.
C2_ReservedWithinStock ==
    \A p \in Products : 0 <= reserved_stock[p] /\ reserved_stock[p] <= stock_quantity[p]

C4_ReleaseAfterFailedPersist ==
    \A c \in Refs :
        CreateReturned(c, {"http500_save", "reservation_error", "error"}) =>
            \A p \in Products :
                /\ items[c][p] > 0 => creq[c].res[p] = "undone"
                /\ held[c][p] = 0

\* The transition table of the order lifecycle (specification, 4.3).
TransitionTable(from) ==
    CASE from = "pending" -> {"confirmed", "processing", "cancelled", "failed"}
      [] from = "confirmed" -> {"processing", "awaiting_shipment", "cancelled", "failed"}
      [] from = "processing" -> {"awaiting_shipment", "shipped", "cancelled", "failed"}
      [] from = "awaiting_shipment" -> {"shipped", "cancelled", "failed"}
      [] from = "shipped" -> {"delivered", "returned", "failed"}
      [] from = "delivered" -> {"returned"}
      [] OTHER -> {}

NoSideEffect(r) ==
    /\ r.lp = {} /\ r.app = {} /\ r.trx = 0 /\ r.disp = 0 /\ ~r.wrote

\* C5 - Transition legality: a request for a status other than the current one
\* that the table does not list is rejected, and it has made no ledger call, no
\* transaction record request, no disposition request and no write by then.
C5_TransitionLegality ==
    \A u \in Updaters :
        (/\ upd[u].pc # "idle"
         /\ upd[u].cur \in Statuses
         /\ upd[u].new # upd[u].cur
         /\ upd[u].new \notin TransitionTable(upd[u].cur))
        => /\ UpdateReturned(u, {"http400"})
           /\ NoSideEffect(upd[u])

C5_Witness ==
    \E u \in Updaters :
        /\ UpdateReturned(u, {"http400"})
        /\ upd[u].cur = "delivered" /\ upd[u].new = "shipped"

Terminal == {"cancelled", "failed", "returned"}

\* C6 - Terminal states are absorbing: once the stored status of an order is
\* cancelled, failed or returned, no step changes it.
C6_TerminalAbsorbing ==
    [][\A o \in Refs :
          orders[o].status \in Terminal => orders'[o].status = orders[o].status]_vars

C8_ConfirmOnLedger ==
    (/\ call.p \in Products /\ ~call.res /\ call.q < 0 /\ call.f = "none")
    => LET q == -call.q
           p == call.p
       IN  /\ call.out = "true" <=> (call.sq >= q /\ call.rs >= q)
           /\ call.out = "true" =>
                 /\ stock_quantity[p] = call.sq - q
                 /\ reserved_stock[p] = call.rs - q
                 /\ stock_quantity[p] - reserved_stock[p] = call.sq - call.rs
           /\ call.out = "false" =>
                 /\ stock_quantity[p] = call.sq
                 /\ reserved_stock[p] = call.rs

C8_Witness ==
    /\ call.p \in Products /\ ~call.res /\ call.q = -2 /\ call.f = "none"
    /\ call.out = "true"

\* C9 - An accepted transition from pending to confirmed or processing has
\* invoked confirm of the order's reservation by the time the status is
\* written, and stock_quantity and reserved_stock of every ordered product
\* are lower by the ordered quantity.
C9_ConfirmOnAcceptedTransition ==
    \A u \in Updaters :
        (/\ UpdateReturned(u, {"updated"})
         /\ upd[u].cur = "pending"
         /\ upd[u].new \in {"confirmed", "processing"})
        => /\ upd[u].act = "confirm"
           /\ upd[u].lp = OrderProducts(upd[u].ref)
           /\ \A p \in OrderProducts(upd[u].ref) :
                  /\ sold[upd[u].ref][p] = items[upd[u].ref][p]
                  /\ held[upd[u].ref][p] = 0

C11_ReleaseOnTerminalTransition ==
    \A u \in Updaters :
        (/\ UpdateReturned(u, {"updated"})
         /\ upd[u].new \in Terminal
         /\ upd[u].cur \notin Terminal)
        => /\ upd[u].act = "release"
           /\ upd[u].lp = OrderProducts(upd[u].ref)

C11_Witness ==
    \E u \in Updaters :
        /\ UpdateReturned(u, {"updated"})
        /\ upd[u].cur = "shipped" /\ upd[u].new = "returned"
        /\ upd[u].act = "release"
        /\ upd[u].lp = OrderProducts(upd[u].ref)

\* C12 - A request for the status the order already has is a no-op in every
\* state, terminal ones included: it returns the order as it is, having made no
\* ledger call, no transaction record request, no disposition request and no
\* write to the order.
C12_SameStatusNoOp ==
    \A u \in Updaters :
        (/\ upd[u].pc # "idle"
         /\ upd[u].cur \in Statuses
         /\ upd[u].new = upd[u].cur)
        => /\ UpdateReturned(u, {"unchanged"})
           /\ NoSideEffect(upd[u])
           /\ orders[upd[u].ref].status = upd[u].cur

C12_Witness ==
    \E u \in Updaters :
        /\ UpdateReturned(u, {"unchanged"})
        /\ upd[u].cur = "cancelled" /\ upd[u].new = "cancelled"
        /\ \E p \in Products : sold[upd[u].ref][p] > 0

\* C13 - Whatever way the ledger action (confirm or release) of an accepted
\* transition fails, the request goes on to write the new status: no request
\* ends in its ledger step.
C13_WriteAfterLedgerFailure ==
    [][\A u \in Updaters :
          upd[u].pc = "ledger" => upd'[u].pc \in {"ledger", "finish"}]_vars

\* C14 - The outcome of update_order_status tells a transition applied with a
\* consistent ledger from one applied while its confirm or release failed: a
\* request whose ledger action failed never returns what a fully successful
\* one returns.
C14_LedgerFailureDistinct ==
    \A u \in Updaters : UpdateReturned(u, {"updated"}) => ~upd[u].lerr

\* C15 - When the reservation of an item fails in create_order, no order
\* record is stored and the caller receives a conflict error that names the
\* products that could not be reserved.
C15_ConflictNamesProducts ==
    \A c \in Refs :
        CreateReturned(c, {"http409"}) =>
            LET failed == {p \in Products : creq[c].res[p] = "fail"}
            IN  /\ orders[c].status = "none"
                /\ ConflictDetail(failed) = failed

\* C16 - Causal order of one reservation: an order record exists only after
\* the reserve attempts of all its items succeeded, and every confirm or
\* release update_order_status issues for an order_ref comes after the reserve
\* phase of that order_ref's create_order: none is issued for a reservation
\* that is still being built.
C16_CausalOrder ==
    /\ \A c \in Refs :
          orders[c].status # "none" =>
              /\ CreateReturned(c, {"created"})
              /\ \A p \in Products : items[c][p] > 0 => creq[c].res[p] = "ok"
    /\ \A u \in Updaters :
          (upd[u].pc # "idle" /\ upd[u].act # "none") =>
              /\ CreateReturned(upd[u].ref, {"created"})
              /\ \A p \in OrderProducts(upd[u].ref) : creq[upd[u].ref].res[p] = "ok"

C16_Witness ==
    \E u \in Updaters, c \in Refs :
        /\ upd[u].pc = "ledger" /\ upd[u].act = "confirm" /\ upd[u].lp # {}
        /\ c # upd[u].ref
        /\ creq[c].pc = "reserve"
        /\ \E p \in Products : creq[c].res[p] = "ok"

\* What create_order returns when its reservation or its persist step failed
\* and every compensating release succeeded.
CompensatedResults == {"http409", "http500_save"}

\* C17 - A compensating release that itself fails is surfaced: a create_order
\* whose rollback, or whose release after a failed persist, failed for some
\* item does not return what it returns when the compensation succeeded.
C17_CompensationFailureSurfaced ==
    \A c \in Refs :
        (creq[c].pc = "done" /\ creq[c].compfail) => creq[c].out \notin CompensatedResults

\* C18 - The ledger has a single write path: ProductRepository.update leaves
\* stock_quantity and reserved_stock of the product as it found them, for
\* every update payload.
C18_UpdateLeavesLedger ==
    (call.f = "update" /\ call.p \in Products) =>
        /\ stock_quantity[call.p] = call.sq
        /\ reserved_stock[call.p] = call.rs

RECURSIVE OrderedQuantity(_, _)
\* The quantity of product p ordered by the item lines.
OrderedQuantity(order_items, p) ==
    IF order_items = <<>> THEN 0
    ELSE (IF Head(order_items).product_id = p THEN Head(order_items).quantity ELSE 0)
         + OrderedQuantity(Tail(order_items), p)

\* C20 - An accepted transition into delivered issues one mark-units-sold
\* request that carries, for each product of the order, the quantity ordered
\* of that product.
C20_DispositionCarriesQuantities ==
    call.f = "sold" =>
        /\ DOMAIN call.product_ids_quantities =
               {p \in Products : OrderedQuantity(call.items, p) > 0}
        /\ \A p \in DOMAIN call.product_ids_quantities :
               call.product_ids_quantities[p] = OrderedQuantity(call.items, p)

\* C21 - Reserve on the ledger (is_reservation = TRUE, q > 0), the store
\* answering: it succeeds exactly when stock_quantity - reserved_stock >= q,
\* and then raises reserved_stock by q and leaves stock_quantity as it was.
C21_ReserveOnLedger ==
    (/\ call.p \in Products /\ call.f = "none" /\ call.res = TRUE /\ call.q > 0)
    => /\ call.out = "true" <=> (call.sq - call.rs >= call.q)
       /\ call.out = "true" =>
             /\ reserved_stock[call.p] = call.rs + call.q
             /\ stock_quantity[call.p] = call.sq

\* C22 - When the guard of update_stock_atomic is not met, or the product does
\* not exist, the call returns false and no product's stock_quantity or
\* reserved_stock changes, for the reserve, release and confirm usages alike.
C22_RefusedCallNoEffect ==
    [][LET c == call'
           n == IF c.q < 0 THEN -c.q ELSE c.q
           unmet ==
               \/ c.p \notin Products
               \/ c.res /\ c.q > 0 /\ stock_quantity[c.p] < n
               \/ c.res /\ c.q < 0 /\ reserved_stock[c.p] < n
               \/ ~c.res /\ c.q < 0
                    /\ (stock_quantity[c.p] < n \/ reserved_stock[c.p] < n)
       IN  (c.f = "none" /\ c.p \in ProductIds /\ (unmet \/ c.out = "false")) =>
               /\ unmet /\ c.out = "false"
               /\ UNCHANGED <<stock_quantity, reserved_stock>>]_vars

C22_Witness ==
    /\ call.p \in Products /\ call.f = "none" /\ call.out = "false"
    /\ ~call.res /\ call.q < 0
    /\ call.sq >= -call.q /\ call.rs < -call.q
    /\ stock_quantity[call.p] = call.sq

\* C23 - A reserve attempt of create_order that ends with an error or a
\* timeout instead of a boolean is handled as a failed item: create_order
\* fails, and (every release it issued having succeeded) no reserved quantity
\* of this call remains on any product.
C23_ErroredReserveCompensated ==
    \A c \in Refs :
        (/\ creq[c].pc = "done"
         /\ ~creq[c].clean /\ ~creq[c].compfail
         /\ \E p \in Products : creq[c].res[p] = "fail")
        => /\ creq[c].out = "http409"
           /\ \A p \in Products : held[c][p] = 0

\* C24 - Every create_order call terminates, with an order, a conflict or an
\* error, in every interleaving with the other create_order call contending
\* for the same products in any item order: no reserve attempt waits on
\* another reservation.
C24_CreateTerminates ==
    \A c \in Refs : (creq[c].pc \notin {"idle", "done"}) ~> (creq[c].pc = "done")

C24_Witness ==
    /\ \A c \in Refs : creq[c].pc = "done" /\ items[c] = [p \in Products |-> 1]
    /\ \E c \in Refs : creq[c].out = "http409"

\* C25 - update_order_status never changes the customer, the items, the
\* total_amount or the channel of a stored order: for every transition it
\* writes only status, transaction_ids, notes and the delivery date.
C25_OrderImmutables ==
    call.f = "write" =>
        /\ call.after.customer_id = call.before.customer_id
        /\ call.after.items = call.before.items
        /\ call.after.total_amount = call.before.total_amount
        /\ call.after.channel = call.before.channel
        /\ call.after.status # call.before.status

C25_Witness ==
    /\ call.f = "write"
    /\ call.before.status = "shipped" /\ call.after.status = "returned"
    /\ call.after.notes = "note"
    /\ call.before.items = <<"P1", "P2">>

\* C26 - A failed reference generation ends create_order before any reserve
\* attempt: the call has no reserve result and holds nothing, the step that
\* fails changes no reserved_stock, and no order is stored for it.
C26_ReferenceFailureBeforeReserve ==
    [][\A c \in Refs :
         creq'[c].out = "http500_ref" =>
             /\ \A p \in Products :
                   creq'[c].res[p] = "-" /\ held'[c][p] = 0 /\ resv'[c][p] = 0
             /\ orders'[c].status = "none"
             /\ creq[c].pc = "idle" => reserved_stock' = reserved_stock /\ orders' = orders]_vars

C26_Witness ==
    \E c, b \in Refs :
        /\ CreateReturned(c, {"http500_ref"})
        /\ creq[b].pc = "reserve"
        /\ \E p \in Products : creq[b].res[p] = "ok" /\ reserved_stock[p] > 0

\* C27 - Whatever update_order_status requests an order gets, concurrent ones
\* included, confirm is applied to it at most once: what is taken from
\* stock_quantity for the order never exceeds the order's quantities.
C27_ConfirmAtMostOnce ==
    \A o \in Refs : \A p \in Products : sold[o][p] <= items[o][p]

\* C28 - Over the accepted transitions of one order, handled one request after
\* the other, at most one transaction record request is issued for the order:
\* on its first entry into processing or awaiting_shipment from pending or
\* confirmed, and never again.
C28_OneTransactionRequest == \A o \in Refs : orders[o].trx_requests <= 1

\* No create_order and no update_order_status call is in progress.
AtRest ==
    /\ \A c \in Refs : creq[c].pc \in {"idle", "done"}
    /\ \A u \in Updaters : upd[u].pc = "idle"

\* No ledger call and no persistence call made so far has failed.
NoCallFailed ==
    /\ \A c \in Refs :
          /\ creq[c].clean /\ ~creq[c].compfail
          /\ \A p \in Products : creq[c].res[p] # "fail"
          /\ creq[c].out \in {"-", "created", "http400", "http500_ref"}
    /\ \A o \in Refs : ~orders[o].call_failed

RECURSIVE SumPending(_, _)
SumPending(S, p) ==
    IF S = {} THEN 0
    ELSE LET o == CHOOSE x \in S : TRUE
         IN  (IF orders[o].status = "pending" THEN items[o][p] ELSE 0)
             + SumPending(S \ {o}, p)

====
